---- MODULE Spec2Model ----
(***************************************************************************)
(* Model of src/script.js: the playlist store, the renderer, the player   *)
(* coordinator (playListItem), the search filter, the theme toggle, the   *)
(* key handler and the DOMContentLoaded handler, together with the parts  *)
(* of the collaborators (localStorage, the DOM, Plyr, Hls.js) the script  *)
(* reads and writes.                                                      *)
(*                                                                         *)
(* JavaScript values are modelled as follows.                             *)
(*  - An object reference is a positive number `ref`; two objects are the *)
(*    same object iff their refs are equal (Array.prototype.indexOf       *)
(*    compares by identity).  ref = 0 stands for null/undefined.          *)
(*  - A title is a sequence of characters, a URL a sequence of tokens;    *)
(*    the empty sequence stands for '' and for a missing field (both are  *)
(*    falsy in the `||` chains of the script).                            *)
(*  - Array indices are 0-based as in the script; the sequence holding an *)
(*    array is 1-based, so element i of the array is items[i + 1].        *)
(***************************************************************************)
EXTENDS Integers, Sequences, FiniteSets, TLC

VARIABLES
    mounts,         \* the DOM mount points present in the document
    hlsEnv,         \* window.Hls: "absent", "unsupported" or "supported"
    stored,         \* localStorage['player-playlist']
    storedTheme,    \* localStorage['player-theme']
    themeAttr,      \* data-theme of the document element
    toggleText,     \* textContent of the theme toggle
    playlist,       \* let playlist
    isPlaying,      \* let isPlaying
    dom,            \* content of the playlist container
    playerSrc,      \* playerElement.src
    titleLabel,     \* textContent of .player-title
    engines,        \* the Hls instances created so far
    listeners,      \* the 'qualitychange' listeners registered on Plyr
    quality,        \* plyrInstance.config.quality.options and who wrote it
    selected,       \* engine created by the latest playListItem that ran (0: none)
    loaded,         \* DOMContentLoaded has been dispatched
    timerPending,   \* the setTimeout callback of the load handler is pending
    modalOpen,      \* .player-modal carries class 'open'
    searchFocused,  \* input.player-search has focus
    stored0,        \* localStorage['player-playlist'] as the page found it
    earlyAdd,       \* addToPlaylist ran before DOMContentLoaded was dispatched
    last            \* the operation that produced this state and its outcome

vars == <<mounts, hlsEnv, stored, storedTheme, themeAttr, toggleText, playlist,
          isPlaying, dom, playerSrc, titleLabel, engines, listeners, quality,
          selected, loaded, timerPending, modalOpen, searchFocused, stored0,
          earlyAdd, last>>

(***************************************************************************)
(* Bounds of the model.                                                    *)
(***************************************************************************)
MaxLen == 2       \* add is enabled while the array is shorter than this
MaxEngines == 1   \* an Hls instance is created while fewer than this exist

(***************************************************************************)
(* DOM mount points.                                                       *)
(***************************************************************************)
AllMounts == {"player", "rootId", "rootClass", "title", "search", "toggle", "modal"}

ICON_LIGHT == "sun"
ICON_DARK == "moon"
localThemeKey == "player-theme"

(***************************************************************************)
(* Sequence helpers standing for the String and Array methods used.        *)
(***************************************************************************)
\* Array.prototype.includes / String.prototype.includes for one token
Contains(s, x) == \E i \in 1..Len(s) : s[i] = x

\* String.prototype.includes(sub) on character sequences
Includes(s, sub) ==
    \E i \in 0..(Len(s) - Len(sub)) :
        \A j \in 1..Len(sub) : s[i + j] = sub[j]

\* String.prototype.endsWith for one token
EndsWith(s, x) == Len(s) > 0 /\ s[Len(s)] = x

LowerChar(c) ==
    CASE c = "A" -> "a"
      [] c = "B" -> "b"
      [] OTHER -> c

\* String.prototype.toLowerCase
ToLowerCase(s) == [i \in 1..Len(s) |-> LowerChar(s[i])]

RECURSIVE TrimStart(_)
TrimStart(s) ==
    IF s # <<>> /\ Head(s) = " " THEN TrimStart(Tail(s)) ELSE s

RECURSIVE TrimEnd(_)
TrimEnd(s) ==
    IF s # <<>> /\ s[Len(s)] = " " THEN TrimEnd(SubSeq(s, 1, Len(s) - 1)) ELSE s

\* String.prototype.trim
Trim(s) == TrimEnd(TrimStart(s))

\* Array.prototype.indexOf: first 0-based position of x, -1 when there is none
IndexOf(s, x) ==
    IF Contains(s, x)
    THEN (CHOOSE i \in 1..Len(s) : s[i] = x /\ \A j \in 1..(i - 1) : s[j] # x) - 1
    ELSE -1

(***************************************************************************)
(* Tracks.                                                                 *)
(***************************************************************************)
Track(r, t, su, s) == [ref |-> r, title |-> t, stream_url |-> su, stream |-> s]

\* null or undefined
Null == Track(0, <<>>, <<>>, <<>>)

\* the two objects of the built-in demo playlist
Demo1 == Track(11, <<"A", "1">>, <<"s1", ".m3u8">>, <<>>)
Demo2 == Track(12, <<"A", "2">>, <<"s2", ".mp4">>, <<>>)
FallbackPlaylist == <<Demo1, Demo2>>

\* the objects a caller of myPlayerApp.add holds
ApiTracks ==
    { Track(1, <<"B", "a">>, <<>>, <<"s3", ".m3u8", "?t">>),
      Track(2, <<>>, <<"s4", ".mp4">>, <<"s1", ".m3u8">>) }

AddInputs == ApiTracks

\* item.stream_url || item.stream || ''
ResolveUrl(item) ==
    IF item.stream_url # <<>> THEN item.stream_url ELSE item.stream

(***************************************************************************)
(* The value of `playlist`: an array, or a value that is not an array and  *)
(* has no length and no elements (a plain object, a number, true).         *)
(***************************************************************************)
Arr(items) == [kind |-> "arr", items |-> items]
Obj == [kind |-> "obj", items |-> <<>>]

\* Array.isArray
IsArray(pl) == pl.kind = "arr"

\* a lookup that clamps an index past the end to the last entry
ItemAtClamped(pl, index) ==
    IF IsArray(pl) /\ index >= 0 /\ Len(pl.items) > 0
    THEN pl.items[IF index < Len(pl.items) THEN index + 1 ELSE Len(pl.items)]
    ELSE Null

\* playlist[index]; undefined outside the array and on a non-array
ItemAt(pl, index) ==
    IF IsArray(pl) /\ index >= 0 /\ index < Len(pl.items)
    THEN pl.items[index + 1]
    ELSE Null

(***************************************************************************)
(* JSON.  A stored string is one of                                        *)
(*   none  - the key is missing (getItem returns null)                     *)
(*   bad   - text JSON.parse rejects                                       *)
(*   falsy - the text null, false, 0 or ""                                 *)
(*   obj   - the text of an object, a non-zero number or true              *)
(*   arr   - the text of an array; its elements are null or objects with   *)
(*           the keys title, stream_url, stream                            *)
(* (an empty stored string reads like none; the text of a non-empty       *)
(* string is not among the inputs).                                        *)
(***************************************************************************)
JNone == [kind |-> "none", items |-> <<>>]
JBad == [kind |-> "bad", items |-> <<>>]
JFalsy == [kind |-> "falsy", items |-> <<>>]
JObj == [kind |-> "obj", items |-> <<>>]
JArr(items) == [kind |-> "arr", items |-> items]

JItem(n, t, su, s) == [nul |-> n, title |-> t, stream_url |-> su, stream |-> s]
JNull == JItem(TRUE, <<>>, <<>>, <<>>)

\* the text JSON.stringify writes for one array element
StringifyItem(it) ==
    IF it.ref = 0 THEN JNull ELSE JItem(FALSE, it.title, it.stream_url, it.stream)

\* JSON.stringify(playlist) of an array
Stringify(pl) == JArr([i \in 1..Len(pl.items) |-> StringifyItem(pl.items[i])])

\* refs of the objects JSON.parse creates: fresh, one per element
ParsedRef(i) == 100 + i

ParseItem(j, i) ==
    IF j.nul THEN Null ELSE Track(ParsedRef(i), j.title, j.stream_url, j.stream)

\* JSON.parse of a text that parses; "null" for a falsy result
JsonParse(text) ==
    CASE text.kind = "arr" ->
            Arr([i \in 1..Len(text.items) |-> ParseItem(text.items[i], i)])
      [] text.kind = "obj" -> Obj
      [] OTHER -> [kind |-> "null", items |-> <<>>]

(***************************************************************************)
(* The playlist container.  view is "none" (the static markup, nothing    *)
(* rendered yet), "empty" (the 'No results' message), "full" (the list    *)
(* built by buildPlaylistUI) or "filtered" (the list built by             *)
(* searchPlaylist).  A rendered <li class="player-list-item"> keeps what  *)
(* its onclick closure captured: the index i (byRef = FALSE) or the       *)
(* object `it` (byRef = TRUE).  k is the index the item's track had in    *)
(* the playlist when the item was rendered.                                *)
(***************************************************************************)
Dom(v, items) == [view |-> v, items |-> items]
Li(k0, it0, byRef0) == [k |-> k0, it |-> it0, byRef |-> byRef0, active |-> FALSE]

\* document.getElementById(containerId) || document.querySelector('.playlist-root')
HasContainer == "rootId" \in mounts \/ "rootClass" \in mounts

\* buildPlaylistUI: the container's new content, and whether the forEach
\* callback raised on `item.title` of a null element (before the container
\* is touched)
BuildPlaylistUI(pl, d) ==
    IF ~HasContainer THEN [dom |-> d, raised |-> "none"]
    ELSE IF ~IsArray(pl) \/ Len(pl.items) = 0
         THEN [dom |-> Dom("empty", <<>>), raised |-> "none"]
    ELSE IF \E i \in 1..Len(pl.items) : pl.items[i].ref = 0
         THEN [dom |-> d, raised |-> "TypeError:item.title"]
    ELSE [dom |-> Dom("full", [i \in 1..Len(pl.items) |-> Li(i - 1, pl.items[i], FALSE)]),
          raised |-> "none"]

\* the 0-based positions playlist.filter keeps, in order
RECURSIVE FilterFrom(_, _, _)
FilterFrom(items, normalized, i) ==
    IF i > Len(items) THEN <<>>
    ELSE IF items[i].ref # 0 /\ items[i].title # <<>>
            /\ Includes(ToLowerCase(items[i].title), normalized)
         THEN <<i - 1>> \o FilterFrom(items, normalized, i + 1)
         ELSE FilterFrom(items, normalized, i + 1)

Filtered(pl, normalized) == FilterFrom(pl.items, normalized, 1)

\* searchPlaylist after the empty-query return
RenderFiltered(pl, normalized, d) ==
    IF ~IsArray(pl) THEN [dom |-> d, raised |-> "TypeError:playlist.filter"]
    ELSE IF "rootId" \notin mounts THEN [dom |-> d, raised |-> "none"]
    ELSE LET f == Filtered(pl, normalized) IN
         IF Len(f) = 0 THEN [dom |-> Dom("empty", <<>>), raised |-> "none"]
         ELSE [dom |-> Dom("filtered",
                           [j \in 1..Len(f) |-> Li(f[j], pl.items[f[j] + 1], TRUE)]),
               raised |-> "none"]

(***************************************************************************)
(* Hls.js and Plyr.                                                        *)
(***************************************************************************)
ManifestExt == ".m3u8"

\* a dispatch on url.endsWith('.m3u8')
UseHlsSuffix(url) == hlsEnv = "supported" /\ EndsWith(url, ManifestExt)

\* window.Hls && Hls.isSupported() && url.includes('.m3u8')
UseHls(url) == hlsEnv = "supported" /\ Contains(url, ManifestExt)

\* hls.levels after the manifest of `url` was parsed (decided by the server)
Levels(url) ==
    CASE url # <<>> /\ url[1] = "s1" -> <<[height |-> 360, bitrate |-> 800],
                                          [height |-> 720, bitrate |-> 2000]>>
      [] url # <<>> /\ url[1] = "s3" -> <<[height |-> 720, bitrate |-> 2000],
                                          [height |-> 1080, bitrate |-> 5000]>>
      [] OTHER -> <<>>

\* `${l.height}p @ ${l.bitrate}`
QualityLabel(l) == <<l.height, "p @ ", l.bitrate>>

\* (hls.levels || []).map(...)
QualityOptions(url) == [i \in 1..Len(Levels(url)) |-> QualityLabel(Levels(url)[i])]

\* the values ev.detail.quality takes
QualityChoices == {<<360, "p @ ", 800>>, <<720, "p @ ", 2000>>}

NewHls(url) ==
    [src |-> url, media |-> "player" \in mounts, parsed |-> FALSE, currentLevel |-> -1]

(***************************************************************************)
(* playListItem(index): the values it leaves.  ran is FALSE when the      *)
(* function returned at `if (!item) return`.                               *)
(***************************************************************************)
\* listItems.forEach((el, idx) => el.classList.toggle('active', idx === index))
MarkActive(items, index) ==
    [j \in 1..Len(items) |-> [items[j] EXCEPT !.active = ((j - 1) = index)]]

\* the guard `if (!item) return`
Absent(item) == item.ref = 0

PlayListItem(index) ==
    LET item == ItemAt(playlist, index)
        url == ResolveUrl(item)
        marked == Dom(dom.view, MarkActive(dom.items, index))
        same == [ran |-> FALSE, dom |-> dom, playerSrc |-> playerSrc,
                 titleLabel |-> titleLabel, engines |-> engines,
                 isPlaying |-> isPlaying, selected |-> selected, raised |-> "none"]
    IN  IF Absent(item) THEN same
        ELSE IF UseHls(url)
        THEN [same EXCEPT !.ran = TRUE, !.dom = marked,
                          !.engines = Append(engines, NewHls(url)),
                          !.selected = Len(engines) + 1,
                          !.titleLabel = IF "title" \in mounts THEN item.title ELSE titleLabel,
                          !.isPlaying = TRUE]
        ELSE IF "player" \notin mounts
        THEN \* playerElement.src = url on null
             [same EXCEPT !.ran = TRUE, !.dom = marked, !.selected = 0,
                          !.raised = "TypeError:playerElement.src"]
        ELSE [same EXCEPT !.ran = TRUE, !.dom = marked, !.selected = 0,
                          !.playerSrc = url,
                          !.titleLabel = IF "title" \in mounts THEN item.title ELSE titleLabel,
                          !.isPlaying = TRUE]

\* the model creates at most MaxEngines Hls instances
CanPlay(index) ==
    LET item == ItemAt(playlist, index) IN
    Absent(item) \/ ~UseHls(ResolveUrl(item)) \/ Len(engines) < MaxEngines

Last(op0, index0, pos0, item0, raised0) ==
    [op |-> op0, index |-> index0, pos |-> pos0, item |-> item0, raised |-> raised0]

\* the assignments of one call of playListItem
Play(op, index, pos) ==
    LET r == PlayListItem(index) IN
    /\ dom' = r.dom
    /\ playerSrc' = r.playerSrc
    /\ titleLabel' = r.titleLabel
    /\ engines' = r.engines
    /\ isPlaying' = r.isPlaying
    /\ selected' = r.selected
    /\ last' = Last(op, index, pos, Null, r.raised)

(***************************************************************************)
(* Initial state: the script has been evaluated (the theme IIFE has run,  *)
(* the handlers are bound), DOMContentLoaded has not been dispatched.     *)
(***************************************************************************)
\* texts found in localStorage['player-playlist'] when the page opens
P1 == JItem(FALSE, <<"A", "b">>, <<"s1", ".m3u8">>, <<>>)
P2 == JItem(FALSE, <<"b">>, <<>>, <<"s2", ".mp4">>)

\* a page the script is loaded into: the mount points of its document, the
\* Hls.js build it ships, and what localStorage holds
Page(m, h, text, theme) == [mounts |-> m, hls |-> h, stored |-> text, theme |-> theme]

\* initializeTheme: the theme after the IIFE, for the saved value found
InitTheme(saved) == IF saved # "none" THEN saved ELSE "dark"

ThemeIcon(theme) == IF theme = "light" THEN ICON_LIGHT ELSE ICON_DARK

InitPage(pg) ==
    /\ mounts = pg.mounts
    /\ hlsEnv = pg.hls
    /\ stored = pg.stored
    /\ stored0 = pg.stored
    /\ earlyAdd = FALSE
    /\ themeAttr = InitTheme(pg.theme)
    /\ storedTheme = InitTheme(pg.theme)
    /\ toggleText = IF "toggle" \in pg.mounts THEN ThemeIcon(InitTheme(pg.theme)) ELSE ""
    /\ playlist = Arr(<<>>)
    /\ isPlaying = FALSE
    /\ dom = Dom("none", <<>>)
    /\ playerSrc = <<>>
    /\ titleLabel = <<>>
    /\ engines = <<>>
    /\ listeners = <<>>
    /\ quality = [options |-> <<>>, from |-> 0]
    /\ selected = 0
    /\ loaded = FALSE
    /\ timerPending = FALSE
    /\ modalOpen = ("modal" \in pg.mounts)
    /\ searchFocused = FALSE
    /\ last = Last("init", -1, 0, Null, "none")

Core == {"player", "rootId", "title"}

\* the pages the model is run on
Pages ==
    { Page(AllMounts, "unsupported", JNone, "none"),
      Page({"player", "title"}, "supported", JNone, "light"),
      Page({"title"}, "supported", JArr(<<P1>>), "none"),
      Page(Core, "absent", JArr(<<P1>>), "none"),
      Page(Core, "absent", JArr(<<P1, P2>>), "dark"),
      Page({"rootId", "rootClass", "title"}, "absent", JNone, "none"),
      Page({"player", "rootClass"}, "absent", JBad, "none"),
      Page(Core, "absent", JObj, "none"),
      Page(Core, "unsupported", JFalsy, "none"),
      Page(Core, "absent", JArr(<<>>), "none"),
      Page(Core, "absent", JArr(<<JNull, P2>>), "none"),
      Page({}, "absent", JObj, "light") }

Init == \E pg \in Pages : InitPage(pg)

env == <<mounts, hlsEnv, stored0>>
themeVars == <<storedTheme, themeAttr, toggleText>>
playerVars == <<playerSrc, titleLabel, engines, selected>>
hlsEvents == <<listeners, quality>>
keyVars == <<modalOpen, searchFocused>>

(***************************************************************************)
(* The DOMContentLoaded handler.                                           *)
(***************************************************************************)
\* lines 318-325: playlist after the read of localStorage
ParseSaved(text, pl) ==
    IF text.kind = "none" THEN pl
    ELSE IF text.kind = "bad" THEN Arr(<<>>)
    ELSE JsonParse(text)

\* lines 328-333: !playlist || playlist.length === 0
NeedsFallback(pl) == pl.kind = "null" \/ (IsArray(pl) /\ Len(pl.items) = 0)

Load(text, pl) ==
    LET p == ParseSaved(text, pl) IN
    IF NeedsFallback(p) THEN Arr(FallbackPlaylist) ELSE p

DOMContentLoaded ==
    /\ ~loaded
    /\ loaded' = TRUE
    /\ playlist' = Load(stored, playlist)
    /\ LET b == BuildPlaylistUI(playlist', dom) IN
          /\ dom' = b.dom
          /\ timerPending' = (b.raised = "none")
          /\ last' = Last("load", -1, 0, Null, b.raised)
    /\ UNCHANGED <<env, earlyAdd, stored, themeVars, isPlaying, playerVars, hlsEvents, keyVars>>

\* setTimeout(() => playListItem(0), 50)
TimerFire ==
    /\ timerPending
    /\ CanPlay(0)
    /\ timerPending' = FALSE
    /\ Play("timer", 0, 0)
    /\ UNCHANGED <<env, earlyAdd, stored, themeVars, playlist, hlsEvents, loaded, keyVars>>

(***************************************************************************)
(* window.myPlayerApp                                                      *)
(***************************************************************************)
\* a push that puts the item first (unshift for push)
PushFront(pl, item) == Arr(<<item>> \o pl.items)

\* playlist.push(item)
Push(pl, item) == Arr(Append(pl.items, item))

\* a setItem that runs before the push: the array without its newest entry
PersistStale(pl) == Stringify(Arr(SubSeq(pl.items, 1, Len(pl.items) - 1)))

\* the string written by localStorage.setItem in addToPlaylist
Persist(pl) == Stringify(pl)

AddToPlaylist(item) ==
    IF ~IsArray(playlist)
    THEN \* playlist.push is not a function
         /\ last' = Last("add", -1, 0, item, "TypeError:playlist.push")
         /\ UNCHANGED <<env, earlyAdd, stored, themeVars, playlist, isPlaying, dom, playerVars,
                        hlsEvents, loaded, timerPending, keyVars>>
    ELSE /\ Len(playlist.items) < MaxLen
         /\ playlist' = Push(playlist, item)
         /\ stored' = Persist(playlist')
         /\ LET b == BuildPlaylistUI(playlist', dom) IN
               /\ dom' = b.dom
               /\ last' = Last("add", -1, 0, item, b.raised)
         /\ earlyAdd' = (earlyAdd \/ ~loaded)
         /\ UNCHANGED <<env, themeVars, isPlaying, playerVars, hlsEvents, loaded,
                        timerPending, keyVars>>

\* myPlayerApp.playIndex
PlayIndex(index) ==
    /\ CanPlay(index)
    /\ Play("playIndex", index, 0)
    /\ UNCHANGED <<env, earlyAdd, stored, themeVars, playlist, hlsEvents, loaded, timerPending,
                   keyVars>>

\* the queries typed into the search box
Queries == {<<" ">>, <<"A">>, <<" ", "b", " ">>, <<"2">>}

\* myPlayerApp.search
SearchPlaylist(query) ==
    LET normalized == ToLowerCase(Trim(query))
        r == IF normalized = <<>>
             THEN BuildPlaylistUI(playlist, dom)
             ELSE RenderFiltered(playlist, normalized, dom)
    IN  /\ dom' = r.dom
        /\ last' = Last("search", -1, 0, Null, r.raised)
        /\ UNCHANGED <<env, earlyAdd, stored, themeVars, playlist, isPlaying, playerVars,
                       hlsEvents, loaded, timerPending, keyVars>>

(***************************************************************************)
(* li.onclick of the rendered item at position pos (1-based)               *)
(***************************************************************************)
\* the index the closure passes to playListItem; -1: playListItem not called
ClickIndex(li) == IF li.byRef THEN IndexOf(playlist.items, li.it) ELSE li.k

Click(pos) ==
    /\ pos \in 1..Len(dom.items)
    /\ LET index == ClickIndex(dom.items[pos]) IN
          IF index = -1
          THEN /\ last' = Last("click", -1, pos, Null, "none")
               /\ UNCHANGED <<dom, isPlaying, playerVars>>
          ELSE /\ CanPlay(index)
               /\ Play("click", index, pos)
    /\ UNCHANGED <<env, earlyAdd, stored, themeVars, playlist, hlsEvents, loaded, timerPending,
                   keyVars>>

(***************************************************************************)
(* handleKeydown and the theme toggle                                      *)
(***************************************************************************)
Keys == {" ", "Enter", "/", "Escape", "x"}

\* a handler whose Space/Enter branch toggles the flag instead of setting it
HandleKeydownToggle(key) ==
    /\ IF key \in {" ", "Enter"}
       THEN /\ isPlaying' = ~isPlaying
            /\ UNCHANGED keyVars
       ELSE /\ isPlaying' = isPlaying
            /\ searchFocused' = (searchFocused \/ (key = "/" /\ "search" \in mounts))
            /\ modalOpen' = (modalOpen /\ ~(key = "Escape" /\ "modal" \in mounts))
    /\ last' = Last("keydown", -1, 0, Null, "none")
    /\ UNCHANGED <<env, earlyAdd, stored, themeVars, playlist, dom, playerVars, hlsEvents,
                   loaded, timerPending>>

HandleKeydown(key) ==
    /\ IF ~isPlaying /\ key \in {" ", "Enter"}
       THEN /\ isPlaying' = TRUE
            /\ UNCHANGED keyVars
       ELSE /\ isPlaying' = isPlaying
            /\ searchFocused' = (searchFocused \/ (key = "/" /\ "search" \in mounts))
            /\ modalOpen' = (modalOpen /\ ~(key = "Escape" /\ "modal" \in mounts))
    /\ last' = Last("keydown", -1, 0, Null, "none")
    /\ UNCHANGED <<env, earlyAdd, stored, themeVars, playlist, dom, playerVars, hlsEvents,
                   loaded, timerPending>>

\* themeToggleEl.onclick
ToggleTheme ==
    /\ "toggle" \in mounts
    /\ LET next == IF themeAttr = "light" THEN "dark" ELSE "light" IN
          /\ themeAttr' = next
          /\ toggleText' = ThemeIcon(next)
          /\ storedTheme' = next
    /\ last' = Last("theme", -1, 0, Null, "none")
    /\ UNCHANGED <<env, earlyAdd, stored, playlist, isPlaying, dom, playerVars, hlsEvents,
                   loaded, timerPending, keyVars>>

(***************************************************************************)
(* Events the collaborators deliver                                        *)
(***************************************************************************)
\* Hls.Events.MANIFEST_PARSED of engine e: the callback of lines 180-188
ManifestParsed(e) ==
    /\ e \in 1..Len(engines)
    /\ ~engines[e].parsed
    /\ LET qualityOptions == QualityOptions(engines[e].src) IN
          /\ engines' = [engines EXCEPT ![e].parsed = TRUE]
          /\ quality' = [options |-> qualityOptions, from |-> e]
          /\ listeners' = Append(listeners, [eng |-> e, opts |-> qualityOptions])
    /\ last' = Last("manifestParsed", -1, e, Null, "none")
    /\ UNCHANGED <<env, earlyAdd, stored, themeVars, playlist, isPlaying, dom, playerSrc,
                   titleLabel, selected, loaded, timerPending, keyVars>>

\* hls.currentLevel after every registered listener ran for ev.detail.quality = q
LevelAfter(e, q) ==
    IF \E i \in 1..Len(listeners) : listeners[i].eng = e
    THEN LET i == CHOOSE i \in 1..Len(listeners) :
                     /\ listeners[i].eng = e
                     /\ \A j \in (i + 1)..Len(listeners) : listeners[j].eng # e
         IN  IndexOf(listeners[i].opts, q)
    ELSE engines[e].currentLevel

\* Plyr's 'qualitychange' event
QualityChange(q) ==
    /\ listeners # <<>>
    /\ engines' = [e \in 1..Len(engines) |->
                      [engines[e] EXCEPT !.currentLevel = LevelAfter(e, q)]]
    /\ last' = Last("qualitychange", -1, 0, Null, "none")
    /\ UNCHANGED <<env, earlyAdd, stored, themeVars, playlist, isPlaying, dom, playerSrc,
                   titleLabel, selected, hlsEvents, loaded, timerPending, keyVars>>

Next ==
    \/ DOMContentLoaded
    \/ TimerFire
    \/ \E item \in AddInputs : AddToPlaylist(item)
    \/ \E index \in -1..MaxLen : PlayIndex(index)
    \/ \E query \in Queries : SearchPlaylist(query)
    \/ \E pos \in 1..MaxLen : Click(pos)
    \/ \E key \in Keys : HandleKeydown(key)
    \/ ToggleTheme
    \/ \E e \in 1..MaxEngines : ManifestParsed(e)
    \/ \E q \in QualityChoices : QualityChange(q)

Spec == Init /\ [][Next]_vars

(***************************************************************************)
(* Properties                                                              *)
(***************************************************************************)
\* the state was produced by a call of playListItem
PlayOps == {"playIndex", "click", "timer"}

\* pl holds no track at index: pl is no array, the index is outside
\* [0, length), or the entry there is null
NoTrackAt(pl, index) ==
    \/ pl.kind # "arr"
    \/ index < 0
    \/ index >= Len(pl.items)
    \/ pl.items[index + 1].ref = 0

\* the state was produced by a call of playListItem with the index of a track
\* (playListItem does not change the playlist, so the track is read here)
Played == last.op \in PlayOps /\ ~NoTrackAt(playlist, last.index)

\* s is a prefix of t
IsPrefix(s, t) == Len(s) <= Len(t) /\ \A i \in 1..Len(s) : s[i] = t[i]

\* the text is an array of track objects
WellFormed(text) ==
    text.kind = "arr" /\ \A i \in 1..Len(text.items) : ~text.items[i].nul

\* the text is not the text of an array
Malformed(text) == text.kind \in {"bad", "falsy", "obj"}

(***************************************************************************)
(* C1: for every malformed persisted playlist string, the DOMContentLoaded *)
(* handler completes without raising and leaves the built-in two-track     *)
(* fallback playlist in memory.                                            *)
(***************************************************************************)
C1_MalformedYieldsFallback ==
    (last.op = "load" /\ Malformed(stored))
        => (last.raised = "none" /\ playlist = Arr(FallbackPlaylist))

(***************************************************************************)
(* C2: add is append-only.  Every add on an array playlist leaves the      *)
(* array one longer, its old entries unchanged and in order, the added     *)
(* track last; filter, playAt and item clicks leave the playlist as it is. *)
(* By induction N adds interleaved with filter and playAt calls turn a     *)
(* playlist of length L into one of length L + N whose first L entries     *)
(* are the old ones and whose last N are the added tracks in call order.   *)
(***************************************************************************)
C2_AddAppendOnly ==
    [][ (IsArray(playlist) /\ last'.op \in {"add", "search"} \cup PlayOps)
          => IF last'.op = "add"
             THEN /\ IsArray(playlist')
                  /\ Len(playlist'.items) = Len(playlist.items) + 1
                  /\ SubSeq(playlist'.items, 1, Len(playlist.items)) = playlist.items
                  /\ playlist'.items[Len(playlist'.items)] = last'.item
             ELSE playlist' = playlist ]_vars

\* an add has just extended a playlist that already held another track
C2_Witness ==
    /\ last.op = "add"
    /\ loaded
    /\ IsArray(playlist)
    /\ Len(playlist.items) = 2
    /\ playlist.items[2] = last.item
    /\ playlist.items[1] # last.item

(***************************************************************************)
(* C3: in the view filter(query) has just rendered, the item rendered for  *)
(* the track at original position k passes k to playListItem when it is    *)
(* selected, also when the same track object is in the playlist twice.     *)
(***************************************************************************)
C3_FilteredClickResolves ==
    (last.op = "search" /\ dom.view = "filtered")
        => \A pos \in 1..Len(dom.items) : ClickIndex(dom.items[pos]) = dom.items[pos].k

(***************************************************************************)
(* C4: source-type dispatch of playListItem.                               *)
(***************************************************************************)
\* the step is a call of playListItem that got past the guard and dispatched
\* as `hls` says: to a new Hls instance, or to the direct assignment
Dispatched(hls) ==
    LET url == ResolveUrl(ItemAt(playlist, last'.index)) IN
    IF hls
    THEN /\ engines' = Append(engines, NewHls(url))
         /\ selected' = Len(engines')
         /\ playerSrc' = playerSrc
    ELSE /\ engines' = engines
         /\ selected' = 0
         /\ IF "player" \in mounts
            THEN playerSrc' = url /\ last'.raised = "none"
            ELSE playerSrc' = playerSrc /\ last'.raised = "TypeError:playerElement.src"

\* C4 as claimed: the adaptive engine is used exactly when Hls is present and
\* supported and the resolved URL ends in .m3u8; any other URL is assigned to
\* the player's source and no engine is created
C4_DispatchOnSuffix ==
    [][ Played' =>
          Dispatched(hlsEnv = "supported"
                     /\ EndsWith(ResolveUrl(ItemAt(playlist, last'.index)), ManifestExt)) ]_vars

\* C4 amended: the adaptive engine is used exactly when Hls is present and
\* supported and the resolved URL contains .m3u8 anywhere; then the player's
\* source is not assigned.  Otherwise no engine is created and the direct
\* assignment is made: it sets the player's source to the URL when the player
\* element exists and raises on the missing element when it does not.
C4_DispatchOnSubstring ==
    [][ Played' =>
          Dispatched(hlsEnv = "supported"
                     /\ Contains(ResolveUrl(ItemAt(playlist, last'.index)), ManifestExt)) ]_vars

\* an engine was attached for a URL that contains .m3u8 before a query string
C4_Witness ==
    /\ Played
    /\ selected # 0
    /\ ~EndsWith(engines[selected].src, ManifestExt)

(***************************************************************************)
(* C5: playAt(index) with an index outside the array, or at an absent      *)
(* entry, raises nothing and changes nothing: not the playlist, the        *)
(* persisted entries, isPlaying, the rendered items and their active       *)
(* marks, the player's source, the title label or the Hls instances.       *)
(***************************************************************************)
C5_OutOfRangeIsNoOp ==
    [][ (last'.op = "playIndex" /\ NoTrackAt(playlist, last'.index))
          => /\ last'.raised = "none"
             /\ UNCHANGED <<playlist, stored, storedTheme, isPlaying, dom, playerSrc,
                            titleLabel, engines, listeners, quality, selected,
                            timerPending>> ]_vars

\* playAt was called with an index past the end while the page was playing
\* and a list with an active item was on screen
C5_Witness ==
    /\ last.op = "playIndex"
    /\ last.index >= Len(playlist.items)
    /\ NoTrackAt(playlist, last.index)
    /\ isPlaying
    /\ \E pos \in 1..Len(dom.items) : dom.items[pos].active

(***************************************************************************)
(* C6: a missing mount point never makes an operation raise: on a playlist *)
(* that is an array of tracks no operation raises, whichever mount points  *)
(* the document lacks.                                                      *)
(***************************************************************************)
C6_MissingMountNeverRaises ==
    (IsArray(playlist) /\ \A i \in 1..Len(playlist.items) : playlist.items[i].ref # 0)
        => last.raised = "none"

(***************************************************************************)
(* C7: after a playAt that found a track, the rendered item of the track   *)
(* at that original index is marked active, if it is rendered, and no      *)
(* other rendered item is, in the full view and in a filtered view.        *)
(***************************************************************************)
C7_ActiveMarksPlayedTrack ==
    (Played /\ dom.view \in {"full", "filtered"})
        => \A pos \in 1..Len(dom.items) :
              dom.items[pos].active <=> (dom.items[pos].k = last.index)

(***************************************************************************)
(* C8: a later selection supersedes an earlier one.  Whatever the order of *)
(* the manifest-parsed and quality-change events, an event changes the     *)
(* current level of no Hls instance but the one attached by the latest     *)
(* selection, and a manifest-parsed event writes the quality options only  *)
(* for that instance.                                                       *)
(***************************************************************************)
C8_LaterSelectionSupersedes ==
    [][ (last'.op \in {"manifestParsed", "qualitychange"})
          => /\ \A e \in 1..Len(engines) :
                   e # selected => engines'[e].currentLevel = engines[e].currentLevel
             /\ last'.op = "manifestParsed" => quality'.from = selected ]_vars

(***************************************************************************)
(* C9: the is-playing flag goes idle -> playing only.                      *)
(***************************************************************************)
\* the step is a call of playListItem with the index of a track, run to its end
PlayCompleted == Played' /\ last'.raised = "none"

\* C9 as claimed: false initially, false until the first playAt with a valid
\* index and a present track, true right after it, never reset
C9_SetOnlyByPlayAt ==
    /\ ~isPlaying
    /\ [][ /\ (~isPlaying /\ isPlaying') => Played'
           /\ Played' => isPlaying'
           /\ isPlaying => isPlaying' ]_vars

\* C9 amended: false initially; it turns true only by a playAt that finds a
\* track and runs to its end or by a Space or Enter key press; it is true right
\* after such a playAt; once true no operation resets it
C9_IdleToPlaying ==
    /\ ~isPlaying
    /\ [][ /\ (~isPlaying /\ isPlaying')
                 => (PlayCompleted \/ \E key \in {" ", "Enter"} : HandleKeydown(key))
           /\ PlayCompleted => isPlaying'
           /\ isPlaying => isPlaying' ]_vars

\* the flag is true although no track was ever played: a key press set it
C9_Witness ==
    /\ isPlaying
    /\ last.op = "keydown"
    /\ ~loaded
    /\ playlist = Arr(<<>>)

(***************************************************************************)
(* C10: persistence never loses tracks.                                    *)
(***************************************************************************)
\* the page found a well-formed, non-empty playlist P in localStorage
FoundPlaylist == WellFormed(stored0) /\ Len(stored0.items) > 0

\* C10 as claimed: whenever add runs, before or after DOMContentLoaded, the
\* persisted playlist then equals the in-memory one and has P as a prefix
C10_AddKeepsPersisted ==
    (FoundPlaylist /\ last.op = "add")
        => /\ stored = Stringify(playlist)
           /\ IsPrefix(stored0.items, stored.items)

\* C10 amended: after each add the persisted playlist equals the in-memory one;
\* P is a prefix of it provided no add ran before DOMContentLoaded (an add
\* before it persists the still empty in-memory playlist plus the new track
\* over P)
C10_AddAfterLoadKeepsPersisted ==
    (FoundPlaylist /\ last.op = "add")
        => /\ stored = Stringify(playlist)
           /\ ~earlyAdd => (loaded /\ IsPrefix(stored0.items, stored.items))

\* an add after DOMContentLoaded extended the playlist the page found
C10_Witness ==
    /\ FoundPlaylist
    /\ last.op = "add"
    /\ loaded
    /\ ~earlyAdd
    /\ Len(stored.items) = Len(stored0.items) + 1

====
